---- MODULE Spec2Model ----
(***************************************************************************)
(* A model of uipath_automation.py: the UiPathAutomation class (login,     *)
(* _is_logged_in, navigate_to_jobs, list_jobs, run_job, run_all_jobs,      *)
(* close) and the command-line driver main().                              *)
(*                                                                         *)
(* The browser page is the environment.  Every page operation either       *)
(* completes or raises; what it raises is an Exception (a Playwright       *)
(* error, a timeout) or a KeyboardInterrupt (the operator's Ctrl-C).  A    *)
(* visibility probe completes with "vis" (is_visible returned True) or     *)
(* "hid" (it returned False).                                              *)
(***************************************************************************)
EXTENDS Integers, Sequences, FiniteSets, TLC

\* ------------------------------------------------------------------ bounds
\* Ctrl-C is delivered at most this many times in one run.
MaxInterrupts == 1
\* At most this many --job arguments on the command line.
MaxArgs == 2
\* In a whole run of main a row selector matches at most this many rows.
MaxListed == 2
\* In an isolated list_jobs call a row selector matches up to ROW_LIMIT + MaxExtra rows.
MaxExtra == 2

\* elements[:50] in list_jobs
ROW_LIMIT == 50

\* ------------------------------------------------------- selector lists
username_selectors ==
  << "input[name=email]", "input[name=username]", "input[type=email]",
     "input[type=text][placeholder*=email i]", "input[placeholder*=username i]" >>

password_selectors == << "input[name=password]", "input[type=password]" >>

login_button_selectors ==
  << "button[type=submit]", "button:has-text(Sign in)", "button:has-text(Login)",
     "button:has-text(Log in)", "input[type=submit]" >>

logged_in_indicators ==
  << "text=Jobs", "text=Processes", "text=Robots", "text=Orchestrator",
     "[data-testid*=menu]", "nav", "[role=navigation]" >>

login_indicators == << "text=Sign in", "text=Login", "input[type=password]" >>

job_links ==
  << "a:has-text(Jobs)", "a:has-text(Processes)", "a[href*=/jobs]",
     "a[href*=/processes]", "button:has-text(Jobs)", "button:has-text(Processes)" >>

job_item_selectors ==
  << "tr[data-testid*=job]", "tr[data-testid*=process]", "div[data-testid*=job]",
     "div[data-testid*=process]", ".job-row", ".process-row", "tbody tr",
     "[class*=job]", "[class*=process]" >>

\* The page-global selectors of run_job; each embeds the job name.
play_button_selectors ==
  << "button:has-text(NAME) + button[aria-label*=play i]",
     "button:has-text(NAME) + button[aria-label*=run i]",
     "tr:has-text(NAME) button[aria-label*=play i]",
     "tr:has-text(NAME) button[aria-label*=run i]",
     "[data-testid*=job]:has-text(NAME) button:has-text(Play)",
     "[data-testid*=job]:has-text(NAME) button:has-text(Run)",
     "button[title*=play i]:near(:text=NAME)",
     "button[title*=run i]:near(:text=NAME)" >>

\* Job names the page and the command line draw from.
JobNames == {"A", "B"}

VARIABLES
  pc,         \* the statement the program is at
  stack,      \* return labels of the calls in progress, innermost last
  sel,        \* index of the selector the current for-loop is at
  ret,        \* the boolean the last returned method returned
  cmd,        \* args: "list" (--list-jobs), "all" (--all), "jobs" (--job ...), "none"
  args_jobs,  \* args.jobs: the requested job names, in order
  creds,      \* self.username and self.password are both non-empty
  headless,   \* self.headless
  pageRows,   \* the most rows a row selector can match on the listing page
  ind,        \* what the page shows for the two indicator lists ("?": decided at the probe)
  rowVis,     \* what the page shows for the row of the job run_job was called with
  ints,       \* KeyboardInterrupts delivered so far
  res,        \* the resources start_browser has acquired, in order
  released,   \* the resources close() has invoked the release of
  closeCalls, \* how many times close() was invoked
  jobs,       \* the jobs list of list_jobs (the names, in order)
  results,    \* the results dict of the multi-job loops: a sequence of <<name, bool>>
  k,          \* index of the job the multi-job loop is at
  attempts,   \* the run_job calls of the run so far: <<name, a click was performed>>
  phases,     \* the steps of main begun so far, in order
  h           \* history of the call in progress, for the properties

vars == << pc, stack, sel, ret, cmd, args_jobs, creds, headless, pageRows, ind,
           rowVis, ints, res, released, closeCalls, jobs, results, k, attempts,
           phases, h >>

inputs == << cmd, args_jobs, creds, headless, pageRows >>

\* The browser resources and the collections of the multi-job loops.
data == << res, released, closeCalls, jobs, results, k, attempts, phases >>

\* ------------------------------------------------------------- helpers
\* What a page operation can raise now.
Raises == {"Exception"} \cup (IF ints < MaxInterrupts THEN {"KeyboardInterrupt"} ELSE {})

\* The outcomes of a page operation (goto, fill, click, press, wait, screenshot).
OpOutcomes == {"ok"} \cup Raises

\* The outcomes of locator(s).is_visible(timeout=...) when the page shows e for s.
ProbeOutcomes(e) ==
  CASE e = "?"     -> {"vis", "hid"} \cup Raises
    [] e = "raise" -> Raises
    [] OTHER       -> {e}

\* What the page can show for a selector: the element visible, not visible, or
\* a probe that raises.
Shown == {"vis", "hid", "raise"}

Interrupted(o) == ints' = ints + (IF o = "KeyboardInterrupt" THEN 1 ELSE 0)

\* Return labels of the harness specifications: a single public method is called.
HarnessLabels == {"ret_classify", "ret_list_jobs"}

\* The method whose return lands on a label.
MethodOf(label) ==
  CASE label \in {"login_check1", "login_check2", "ret_classify"} -> "_is_logged_in"
    [] label = "main_login_ret"                       -> "login"
    [] label \in {"lj_wait", "rj_wait"}               -> "navigate_to_jobs"
    [] label \in {"main_list_ret", "ra_list_ret", "ret_list_jobs"} -> "list_jobs"
    [] label \in {"main_job_ret", "ra_job_ret"}       -> "run_job"
    [] label = "main_all_ret"                         -> "run_all_jobs"

\* The history of a call, cleared when a new call or a new selector loop starts.
NoHistory ==
  [ hit     |-> 0,        \* first selector of the current list whose probe succeeded
    acted   |-> 0,        \* selector of the current list last acted on (fill, click)
    late    |-> FALSE,    \* a later selector was probed or acted on after the hit
    class1  |-> "none",   \* login: result of the first _is_logged_in call
    class2  |-> "none",   \* login: result of the _is_logged_in call after submit
    acts    |-> 0,        \* login: fills, clicks and key presses performed
    sent    |-> <<>>,     \* login: the fills and clicks that completed and the Enter presses, in order
    loginRet |-> "none",  \* how login ended: "True", "False", "raised"
    rjName  |-> "none",   \* run_job: the job name of the call
    rjClicks |-> 0,       \* run_job: clicks on an action control
    rjEnd   |-> "none",   \* run_job: "True", "False", "raised"
    fallback |-> FALSE,   \* run_job: the pass over play_button_selectors was started
    matched |-> 0,        \* list_jobs: elements the last row selector yielded
    tried   |-> 0,        \* list_jobs: row selectors tried
    pat     |-> <<>>,     \* list_jobs: what the rows of the last row selector yield
    barren  |-> FALSE,    \* list_jobs: a row selector matched rows and yielded no record
    escaped |-> {},       \* methods an exception propagated out of
    escKind |-> "none" ]  \* and what was raised

Bool2Str(b) == IF b THEN "True" ELSE "False"

\* return v: pop the innermost call.
Return(v) ==
  /\ pc' = stack[Len(stack)]
  /\ stack' = SubSeq(stack, 1, Len(stack) - 1)
  /\ ret' = v

\* call: continue at entry, return to label.
Call(entry, label) ==
  /\ pc' = entry
  /\ stack' = Append(stack, label)

\* An exception no method on the stack catches: main's handlers take it (the
\* harness specifications end instead).
Uncaught(kind, hh) ==
  /\ pc' = IF stack # <<>> /\ stack[1] \in HarnessLabels THEN stack[1]
           ELSE IF kind = "KeyboardInterrupt" THEN "main_except_ki"
           ELSE "main_except_exc"
  /\ stack' = <<>>
  /\ h' = [hh EXCEPT !.escaped = {MethodOf(stack[i]) : i \in 1..Len(stack)},
                    !.escKind = kind]

\* ------------------------------------------------------ _is_logged_in
\* lines 207-212: the positive indicators, in order.
IsLoggedInPositive_NoPrecedence ==
  /\ pc = "ili_pos"
  /\ \E o \in ProbeOutcomes(ind.pos[sel]) :
       /\ Interrupted(o)
       /\ IF o # "vis" /\ sel < Len(logged_in_indicators)
            THEN /\ sel' = sel + 1
                 /\ UNCHANGED << pc, stack, ret >>
            ELSE /\ pc' = "ili_neg"
                 /\ sel' = 1
                 /\ UNCHANGED << stack, ret >>
  /\ UNCHANGED << inputs, ind, rowVis, data, h >>

IsLoggedInPositive ==
  /\ pc = "ili_pos"
  /\ \E o \in ProbeOutcomes(ind.pos[sel]) :
       /\ Interrupted(o)
       /\ IF o = "vis"
            THEN /\ Return(TRUE)
                 /\ sel' = 1
            ELSE IF sel < Len(logged_in_indicators)
            THEN /\ sel' = sel + 1
                 /\ UNCHANGED << pc, stack, ret >>
            ELSE /\ pc' = "ili_neg"
                 /\ sel' = 1
                 /\ UNCHANGED << stack, ret >>
  /\ UNCHANGED << inputs, ind, rowVis, data, h >>

\* lines 221-229: the login-page indicators, then the default.
IsLoggedInNegative_DefaultFalse ==
  /\ pc = "ili_neg"
  /\ \E o \in ProbeOutcomes(ind.neg[sel]) :
       /\ Interrupted(o)
       /\ IF o = "vis" \/ sel = Len(login_indicators)
            THEN /\ Return(FALSE)
                 /\ sel' = 1
            ELSE /\ sel' = sel + 1
                 /\ UNCHANGED << pc, stack, ret >>
  /\ UNCHANGED << inputs, ind, rowVis, data, h >>

IsLoggedInNegative ==
  /\ pc = "ili_neg"
  /\ \E o \in ProbeOutcomes(ind.neg[sel]) :
       /\ Interrupted(o)
       /\ IF o = "vis"
            THEN /\ Return(FALSE)
                 /\ sel' = 1
            ELSE IF sel < Len(login_indicators)
            THEN /\ sel' = sel + 1
                 /\ UNCHANGED << pc, stack, ret >>
            ELSE /\ Return(TRUE)
                 /\ sel' = 1
  /\ UNCHANGED << inputs, ind, rowVis, data, h >>

\* ---------------------------------------------------- selector loops
\* History of a probe of selector s of the current list with outcome o.
Probed(hh, s, o) ==
  [hh EXCEPT !.late = @ \/ (hh.hit > 0),
             !.hit  = IF o = "vis" /\ hh.hit = 0 THEN s ELSE @]

\* History of a fill or click on selector s of the current list.
Acted(hh, s) ==
  [hh EXCEPT !.acted = s, !.late = @ \/ (hh.hit # s)]

\* History at the start of a selector loop.
NewList(hh) == [hh EXCEPT !.hit = 0, !.acted = 0]

\* -------------------------------------------------------------- login
\* login returns v (lines 100, 142, 158, 181-191).
LoginReturn(v, hh) ==
  /\ Return(v)
  /\ h' = NewList([hh EXCEPT !.loginRet = Bool2Str(v)])

\* An operation of login outside the selector loops ended with o: the
\* except Exception of line 189 returns False, a KeyboardInterrupt leaves login.
LoginFailed(o, hh) ==
  /\ ret' = FALSE
  /\ IF o = "Exception"
       THEN /\ pc' = stack[Len(stack)]
            /\ stack' = SubSeq(stack, 1, Len(stack) - 1)
            /\ h' = NewList([hh EXCEPT !.loginRet = "False"])
       ELSE Uncaught(o, NewList([hh EXCEPT !.loginRet = "raised"]))

\* lines 94-98: goto, wait_for_load_state, then the first classification.
LoginGoto ==
  /\ pc = "login_goto"
  /\ \E o \in OpOutcomes :
       /\ Interrupted(o)
       /\ IF o = "ok"
            THEN /\ Call("ili_pos", "login_check1")
                 /\ UNCHANGED << ret, h >>
            ELSE LoginFailed(o, h)
  /\ sel' = 1
  /\ UNCHANGED << inputs, ind, rowVis, data >>

\* lines 98-103 and 185-187: the branch on the first classification.
LoginCheck1_NoEarlyReturn ==
  /\ pc = "login_check1"
  /\ IF creds
       THEN /\ pc' = "login_user"
            /\ sel' = 1
            /\ h' = NewList([h EXCEPT !.class1 = Bool2Str(ret)])
            /\ UNCHANGED << stack, ret >>
       ELSE /\ LoginReturn(ret, [h EXCEPT !.class1 = Bool2Str(ret)])
            /\ sel' = sel
  /\ UNCHANGED << inputs, ind, rowVis, ints, data >>

LoginCheck1 ==
  /\ pc = "login_check1"
  /\ IF ret
       THEN /\ LoginReturn(TRUE, [h EXCEPT !.class1 = "True"])
            /\ sel' = sel
       ELSE IF creds
       THEN /\ pc' = "login_user"
            /\ sel' = 1
            /\ h' = NewList([h EXCEPT !.class1 = "False"])
            /\ UNCHANGED << stack, ret >>
       ELSE /\ LoginReturn(FALSE, [h EXCEPT !.class1 = "False"])
            /\ sel' = sel
  /\ UNCHANGED << inputs, ind, rowVis, ints, data >>

\* The loop found no field: return False (lines 140-142, 156-158).
LoginNotFound(hh) == LoginReturn(FALSE, hh)

\* The loop clicked no button: press Enter next (lines 172-174).
LoginNoButton_NoEnter(hh) ==
  /\ pc' = "login_wait"
  /\ h' = NewList(hh)
  /\ UNCHANGED << stack, ret >>

LoginNoButton(hh) ==
  /\ pc' = "login_enter"
  /\ h' = NewList(hh)
  /\ UNCHANGED << stack, ret >>

\* A loop of login ended without its flag set: the field loops return False, the
\* button loop goes on to press Enter.
LoginLoopEnded(after, hh) ==
  IF after = "login_enter" THEN LoginNoButton(hh) ELSE LoginNotFound(hh)

\* The probe of one selector in login's three loops (lines 130-138, 146-154,
\* 162-170): visible, go on to act on it; not visible or raising (except:
\* continue), the next selector, and after the last one the loop ends at `after`.
LoginProbe_RaisePropagates(at, list, act, after) ==
  /\ pc = at
  /\ \E o \in ProbeOutcomes("?") :
       /\ Interrupted(o)
       /\ IF o = "vis"
            THEN /\ pc' = act
                 /\ sel' = sel
                 /\ h' = Probed(h, sel, o)
                 /\ UNCHANGED << stack, ret >>
            ELSE IF o # "hid"
            THEN /\ LoginFailed(o, Probed(h, sel, o))
                 /\ sel' = 1
            ELSE IF sel < Len(list)
            THEN /\ sel' = sel + 1
                 /\ h' = Probed(h, sel, o)
                 /\ UNCHANGED << pc, stack, ret >>
            ELSE /\ LoginLoopEnded(after, Probed(h, sel, o))
                 /\ sel' = 1
  /\ UNCHANGED << inputs, ind, rowVis, data >>

LoginProbe(at, list, act, after) ==
  /\ pc = at
  /\ \E o \in ProbeOutcomes("?") :
       /\ Interrupted(o)
       /\ IF o = "vis"
            THEN /\ pc' = act
                 /\ sel' = sel
                 /\ h' = Probed(h, sel, o)
                 /\ UNCHANGED << stack, ret >>
            ELSE IF sel < Len(list)
            THEN /\ sel' = sel + 1
                 /\ h' = Probed(h, sel, o)
                 /\ UNCHANGED << pc, stack, ret >>
            ELSE /\ LoginLoopEnded(after, Probed(h, sel, o))
                 /\ sel' = 1
  /\ UNCHANGED << inputs, ind, rowVis, data >>

\* What a fill or click statement of login enters into the page.
InputOf(at) ==
  CASE at = "login_user_fill" -> "username"
    [] at = "login_pass_fill" -> "password"
    [] at = "login_click"     -> "click"

\* page.fill / page.click on the selector whose probe succeeded; on success the
\* flag is set and the loop is left (break) for `next`.
LoginAct_NoBreak(at, list, back, next, after) ==
  /\ pc = at
  /\ \E o \in OpOutcomes :
       /\ Interrupted(o)
       /\ LET hh == [Acted(h, sel) EXCEPT
                      !.acts = @ + 1,
                      !.sent = IF o = "ok" THEN Append(@, InputOf(at)) ELSE @]
          IN IF sel < Len(list)
               THEN /\ pc' = back
                    /\ sel' = sel + 1
                    /\ h' = hh
                    /\ UNCHANGED << stack, ret >>
             ELSE IF o = "ok"
               THEN /\ pc' = next
                    /\ sel' = 1
                    /\ h' = NewList(hh)
                    /\ UNCHANGED << stack, ret >>
             ELSE /\ LoginLoopEnded(after, hh)
                  /\ sel' = 1
  /\ UNCHANGED << inputs, ind, rowVis, data >>

LoginAct(at, list, back, next, after) ==
  /\ pc = at
  /\ \E o \in OpOutcomes :
       /\ Interrupted(o)
       /\ IF o = "ok"
            THEN /\ pc' = next
                 /\ sel' = 1
                 /\ h' = NewList([Acted(h, sel) EXCEPT !.acts = @ + 1,
                                                       !.sent = Append(@, InputOf(at))])
                 /\ UNCHANGED << stack, ret >>
            ELSE IF sel < Len(list)
            THEN /\ pc' = back
                 /\ sel' = sel + 1
                 /\ h' = [Acted(h, sel) EXCEPT !.acts = @ + 1]
                 /\ UNCHANGED << stack, ret >>
            ELSE /\ LoginLoopEnded(after, [Acted(h, sel) EXCEPT !.acts = @ + 1])
                 /\ sel' = 1
  /\ UNCHANGED << inputs, ind, rowVis, data >>

LoginUserProbe == LoginProbe("login_user", username_selectors, "login_user_fill", "return")
LoginUserFill ==
  LoginAct("login_user_fill", username_selectors, "login_user", "login_pass", "return")
LoginPassProbe == LoginProbe("login_pass", password_selectors, "login_pass_fill", "return")
LoginPassFill ==
  LoginAct("login_pass_fill", password_selectors, "login_pass", "login_button", "return")
LoginButtonProbe ==
  LoginProbe("login_button", login_button_selectors, "login_click", "login_enter")
LoginButtonClick ==
  LoginAct("login_click", login_button_selectors, "login_button", "login_wait", "login_enter")

\* line 174: keyboard.press('Enter').
LoginEnter ==
  /\ pc = "login_enter"
  /\ \E o \in OpOutcomes :
       /\ Interrupted(o)
       /\ IF o = "ok"
            THEN /\ pc' = "login_wait"
                 /\ h' = [h EXCEPT !.acts = @ + 1, !.sent = Append(@, "enter")]
                 /\ UNCHANGED << stack, ret >>
            ELSE LoginFailed(o, [h EXCEPT !.acts = @ + 1, !.sent = Append(@, "enter")])
  /\ UNCHANGED << inputs, ind, rowVis, data, sel >>

\* lines 177-179: wait_for_load_state(timeout=10000), then classify again.
LoginWait ==
  /\ pc = "login_wait"
  /\ \E o \in OpOutcomes :
       /\ Interrupted(o)
       /\ IF o = "ok"
            THEN /\ Call("ili_pos", "login_check2")
                 /\ UNCHANGED << ret, h >>
            ELSE LoginFailed(o, h)
  /\ sel' = 1
  /\ UNCHANGED << inputs, ind, rowVis, data >>

\* lines 179-184: login returns what the second classification says.
LoginCheck2_AlwaysTrue ==
  /\ pc = "login_check2"
  /\ LoginReturn(TRUE, [h EXCEPT !.class2 = Bool2Str(ret)])
  /\ UNCHANGED << inputs, ind, rowVis, ints, data, sel >>

LoginCheck2 ==
  /\ pc = "login_check2"
  /\ LoginReturn(ret, [h EXCEPT !.class2 = Bool2Str(ret)])
  /\ UNCHANGED << inputs, ind, rowVis, ints, data, sel >>

\* --------------------------------------------------- navigate_to_jobs
\* A method that returns no value returns: ret is left as it was.
ReturnNone ==
  /\ pc' = stack[Len(stack)]
  /\ stack' = SubSeq(stack, 1, Len(stack) - 1)
  /\ ret' = ret

\* After link sel failed (except: continue, or not visible): the next link, or
\* the direct-navigation branch of line 261 after the last one.
NavContinue ==
  /\ IF sel < Len(job_links)
       THEN /\ pc' = "nav_probe"
            /\ sel' = sel + 1
       ELSE /\ pc' = "nav_url"
            /\ sel' = sel
  /\ UNCHANGED << stack, ret >>

\* line 252: is_visible of the link.
NavProbe ==
  /\ pc = "nav_probe"
  /\ \E o \in ProbeOutcomes("?") :
       /\ Interrupted(o)
       /\ h' = Probed(h, sel, o)
       /\ IF o = "vis"
            THEN /\ pc' = "nav_click"
                 /\ UNCHANGED << sel, stack, ret >>
            ELSE NavContinue
  /\ UNCHANGED << inputs, ind, rowVis, data >>

\* line 253: click the link.
NavClick ==
  /\ pc = "nav_click"
  /\ \E o \in OpOutcomes :
       /\ Interrupted(o)
       /\ h' = Acted(h, sel)
       /\ IF o = "ok"
            THEN /\ pc' = "nav_wait"
                 /\ UNCHANGED << sel, stack, ret >>
            ELSE NavContinue
  /\ UNCHANGED << inputs, ind, rowVis, data >>

\* lines 254-258: wait_for_load_state after the click; return, or except: continue.
NavWait ==
  /\ pc = "nav_wait"
  /\ \E o \in OpOutcomes :
       /\ Interrupted(o)
       /\ IF o = "ok"
            THEN /\ ReturnNone
                 /\ sel' = 1
            ELSE NavContinue
  /\ UNCHANGED << inputs, ind, rowVis, data, h >>

\* lines 261-266: already on the jobs page, or goto the jobs URL and wait.  The
\* except Exception of line 268 logs and returns; a KeyboardInterrupt leaves.
NavDirect ==
  /\ pc = "nav_url"
  /\ \/ /\ ReturnNone
        /\ UNCHANGED << ints, h >>
     \/ \E o \in OpOutcomes :
          /\ Interrupted(o)
          /\ IF o = "KeyboardInterrupt"
               THEN /\ Uncaught(o, h)
                    /\ ret' = ret
               ELSE /\ ReturnNone
                    /\ h' = h
  /\ sel' = 1
  /\ UNCHANGED << inputs, ind, rowVis, data >>

\* ---------------------------------------------------------- list_jobs
\* What a row of the listing yields for its name: a job name, "" (no name
\* element, or an empty text), or "!" (the extraction raises).
RowKinds == JobNames \cup {"", "!"}

\* The rows of a listing repeat a pattern of this length.
PatLen == 2

Patterns == [1..PatLen -> RowKinds]

RowKind(pat, i) == pat[((i - 1) % PatLen) + 1]

\* elements[:50] of n elements (line 302).
Limit_Unbounded(n) == n

Limit(n) == IF n > ROW_LIMIT THEN ROW_LIMIT ELSE n

\* A row yielded a non-empty name (lines 306-308).
Named(row) == row.name \in JobNames

\* lines 302-315: the records of the first m rows whose name is extracted and
\* non-empty, in row order; index is the row's position from 0.
ExtractJobs(pat, m) ==
  SelectSeq([i \in 1..m |-> [name |-> RowKind(pat, i), index |-> i - 1]], Named)

\* How many elements locator(selector).all() can yield (line 298) on a page
\* where a selector matches at most max rows: a few, or about ROW_LIMIT and more.
RowCounts(max) == { n \in 0..max : n <= MaxListed \/ n >= ROW_LIMIT - 1 }

\* list_jobs and run_job begin with navigate_to_jobs (lines 275, 335).
CallListJobs(labels) ==
  /\ pc' = "nav_probe"
  /\ stack' = stack \o labels \o << "lj_wait" >>
  /\ sel' = 1
  /\ jobs' = <<>>
  /\ h' = NoHistory

\* line 278: wait_for_timeout(2000), outside any try.
ListWait ==
  /\ pc = "lj_wait"
  /\ \E o \in OpOutcomes :
       /\ Interrupted(o)
       /\ IF o = "ok"
            THEN /\ pc' = "lj_rows"
                 /\ h' = NoHistory
                 /\ UNCHANGED << stack >>
            ELSE Uncaught(o, h)
  /\ sel' = 1
  /\ UNCHANGED << inputs, ind, rowVis, data, ret >>

\* lines 317-320: jobs after a row selector that yielded n elements: break when
\* it is non-empty, else the next selector.
ListNext_NoBreak(found, n, pat) ==
  /\ jobs' = found
  /\ h' = [h EXCEPT !.matched = n, !.tried = @ + 1, !.pat = pat,
                    !.barren = @ \/ (n > 0 /\ found = <<>>)]
  /\ IF sel < Len(job_item_selectors)
       THEN /\ sel' = sel + 1
            /\ pc' = pc
       ELSE /\ sel' = sel
            /\ pc' = "lj_tail"

ListNext(found, n, pat) ==
  /\ jobs' = found
  /\ h' = [h EXCEPT !.matched = n, !.tried = @ + 1, !.pat = pat,
                    !.barren = @ \/ (n > 0 /\ found = <<>>)]
  /\ IF found = <<>> /\ sel < Len(job_item_selectors)
       THEN /\ sel' = sel + 1
            /\ pc' = pc
       ELSE /\ sel' = sel
            /\ pc' = "lj_tail"

\* lines 296-320: one row selector: all() raises (except: continue), or it
\* yields n elements whose names follow a pattern; break once jobs is non-empty.
ListRows ==
  /\ pc = "lj_rows"
  /\ \/ \E o \in Raises :
          /\ Interrupted(o)
          /\ ListNext(jobs, 0, <<>>)
     \/ \E n \in RowCounts(pageRows), pat \in Patterns :
          /\ ints' = ints
          /\ ListNext(jobs \o ExtractJobs(pat, Limit(n)), n, IF n = 0 THEN <<>> ELSE pat)
  /\ UNCHANGED << inputs, ind, rowVis, res, released, closeCalls, phases, results, k, attempts,
                  stack, ret >>

\* lines 323-329: the debug screenshot when nothing was found, then return jobs.
ListTail ==
  /\ pc = "lj_tail"
  /\ IF jobs = <<>>
       THEN \E o \in OpOutcomes :
              /\ Interrupted(o)
              /\ IF o = "ok"
                   THEN ReturnNone /\ h' = h
                   ELSE Uncaught(o, h) /\ ret' = ret
       ELSE /\ ReturnNone
            /\ UNCHANGED << ints, h >>
  /\ UNCHANGED << inputs, ind, rowVis, data, sel >>

\* ------------------------------------------------------------ run_job
\* run_job(name) is called: the page shows the job's row or not; then
\* navigate_to_jobs (line 335).
CallRunJob(name, label) ==
  /\ pc' = "nav_probe"
  /\ stack' = stack \o << label, "rj_wait" >>
  /\ sel' = 1
  /\ rowVis' \in Shown
  /\ h' = [NoHistory EXCEPT !.rjName = name]

\* run_job ends: the call is logged with whether it clicked.
Attempted(hh) == Append(attempts, << hh.rjName, hh.rjClicks > 0 >>)

\* return v from run_job (lines 376, 379, 382, 393, 398).
RunJobReturn(v, hh) ==
  /\ Return(v)
  /\ h' = [hh EXCEPT !.rjEnd = Bool2Str(v)]
  /\ attempts' = Attempted(hh)

\* An exception leaves run_job.
RunJobRaise(o, hh) ==
  /\ Uncaught(o, [hh EXCEPT !.rjEnd = "raised"])
  /\ ret' = ret
  /\ attempts' = Attempted(hh)

\* An operation inside the try of line 352 raised: the except Exception of line
\* 384 starts the pass over play_button_selectors; a KeyboardInterrupt leaves.
RunJobExcept(o, hh) ==
  IF o = "Exception"
    THEN /\ pc' = "rj_fb"
         /\ h' = [hh EXCEPT !.fallback = TRUE]
         /\ UNCHANGED << stack, ret, attempts >>
    ELSE RunJobRaise(o, hh)

\* line 336: wait_for_timeout(2000), outside the try.
RunJobWait ==
  /\ pc = "rj_wait"
  /\ \E o \in OpOutcomes :
       /\ Interrupted(o)
       /\ IF o = "ok"
            THEN /\ pc' = "rj_row"
                 /\ h' = [NoHistory EXCEPT !.rjName = h.rjName]
                 /\ UNCHANGED << stack, ret, attempts >>
            ELSE RunJobRaise(o, h)
  /\ sel' = 1
  /\ UNCHANGED << inputs, ind, rowVis, res, released, closeCalls, phases, jobs, results, k >>

\* lines 354-356 and 380-382: is the row containing the job name visible?
RunJobRow ==
  /\ pc = "rj_row"
  /\ \E o \in ProbeOutcomes(rowVis) :
       /\ Interrupted(o)
       /\ CASE o = "vis" -> /\ pc' = "rj_button"
                            /\ UNCHANGED << stack, ret, attempts, h >>
            [] o = "hid" -> RunJobReturn(FALSE, h)
            [] OTHER     -> RunJobExcept(o, h)
  /\ UNCHANGED << inputs, ind, rowVis, res, released, closeCalls, phases, jobs, results, k, sel >>

\* lines 360-371 and 377-379: is a play button visible inside the row?
RunJobButton ==
  /\ pc = "rj_button"
  /\ \E o \in ProbeOutcomes("?") :
       /\ Interrupted(o)
       /\ CASE o = "vis" -> /\ pc' = "rj_click"
                            /\ UNCHANGED << stack, ret, attempts, h >>
            [] o = "hid" -> RunJobReturn(FALSE, h)
            [] OTHER     -> RunJobExcept(o, h)
  /\ UNCHANGED << inputs, ind, rowVis, res, released, closeCalls, phases, jobs, results, k, sel >>

\* line 373: play_button.click().
RunJobClick ==
  /\ pc = "rj_click"
  /\ \E o \in OpOutcomes :
       /\ Interrupted(o)
       /\ IF o = "ok"
            THEN /\ pc' = "rj_settle"
                 /\ h' = [h EXCEPT !.rjClicks = @ + 1]
                 /\ UNCHANGED << stack, ret, attempts >>
            ELSE RunJobExcept(o, h)
  /\ UNCHANGED << inputs, ind, rowVis, res, released, closeCalls, phases, jobs, results, k, sel >>

\* lines 374-376: wait_for_timeout(2000) after the click, then return True.
RunJobSettle ==
  /\ pc = "rj_settle"
  /\ \E o \in OpOutcomes :
       /\ Interrupted(o)
       /\ IF o = "ok"
            THEN RunJobReturn(TRUE, h)
            ELSE RunJobExcept(o, h)
  /\ UNCHANGED << inputs, ind, rowVis, res, released, closeCalls, phases, jobs, results, k, sel >>

\* After page-global selector sel failed (except: continue, or not visible):
\* the next one, or return False after the last (lines 397-398).
FallbackContinue(hh) ==
  IF sel < Len(play_button_selectors)
    THEN /\ pc' = "rj_fb"
         /\ sel' = sel + 1
         /\ h' = hh
         /\ UNCHANGED << stack, ret, attempts >>
    ELSE /\ RunJobReturn(FALSE, hh)
         /\ sel' = 1

\* line 389: is_visible of a page-global selector.
FallbackProbe ==
  /\ pc = "rj_fb"
  /\ \E o \in ProbeOutcomes("?") :
       /\ Interrupted(o)
       /\ IF o = "vis"
            THEN /\ pc' = "rj_fb_click"
                 /\ UNCHANGED << sel, stack, ret, attempts, h >>
            ELSE FallbackContinue(h)
  /\ UNCHANGED << inputs, ind, rowVis, res, released, closeCalls, phases, jobs, results, k >>

\* line 390: page.click(selector).
FallbackClick ==
  /\ pc = "rj_fb_click"
  /\ \E o \in OpOutcomes :
       /\ Interrupted(o)
       /\ IF o = "ok"
            THEN /\ pc' = "rj_fb_settle"
                 /\ h' = [h EXCEPT !.rjClicks = @ + 1]
                 /\ UNCHANGED << sel, stack, ret, attempts >>
            ELSE FallbackContinue(h)
  /\ UNCHANGED << inputs, ind, rowVis, res, released, closeCalls, phases, jobs, results, k >>

\* lines 391-395: wait_for_timeout(2000), then return True; except: continue.
FallbackSettle ==
  /\ pc = "rj_fb_settle"
  /\ \E o \in OpOutcomes :
       /\ Interrupted(o)
       /\ IF o = "ok"
            THEN /\ RunJobReturn(TRUE, h)
                 /\ sel' = 1
            ELSE FallbackContinue(h)
  /\ UNCHANGED << inputs, ind, rowVis, res, released, closeCalls, phases, jobs, results, k >>

\* ------------------------------------------------------- run_all_jobs
\* results[name] = v on a dict kept in insertion order.
DictSet(d, name, v) ==
  IF \E i \in 1..Len(d) : d[i][1] = name
    THEN [i \in 1..Len(d) |-> IF d[i][1] = name THEN << name, v >> ELSE d[i]]
    ELSE Append(d, << name, v >>)

\* lines 403-404: list_jobs has returned; results = {}.
RunAllListed ==
  /\ pc = "ra_list_ret"
  /\ pc' = "ra_loop"
  /\ results' = <<>>
  /\ k' = 1
  /\ h' = NoHistory
  /\ UNCHANGED << inputs, ind, rowVis, ints, res, released, closeCalls, phases, jobs, attempts,
                  stack, sel, ret >>

\* lines 406-408 and 411: the next job is run, or the results are returned.
RunAllLoop ==
  /\ pc = "ra_loop"
  /\ IF k <= Len(jobs)
       THEN CallRunJob(jobs[k].name, "ra_job_ret") /\ ret' = ret
       ELSE ReturnNone /\ UNCHANGED << sel, rowVis, h >>
  /\ UNCHANGED << inputs, ind, ints, data >>

\* lines 408-409: store the result, then wait_for_timeout(1000), outside any try.
RunAllStore ==
  /\ pc = "ra_job_ret"
  /\ results' = DictSet(results, jobs[k].name, ret)
  /\ \E o \in OpOutcomes :
       /\ Interrupted(o)
       /\ IF o = "ok"
            THEN /\ pc' = "ra_loop"
                 /\ k' = k + 1
                 /\ h' = NoHistory
                 /\ UNCHANGED << stack >>
            ELSE /\ Uncaught(o, NoHistory)
                 /\ k' = k
  /\ rowVis' = "?"
  /\ UNCHANGED << inputs, ind, res, released, closeCalls, phases, jobs, attempts, sel, ret >>

\* -------------------------------------------------------------- close
\* The resources in the order start_browser acquires them (lines 73-84).
Resources == << "playwright", "browser", "context", "page" >>

\* The releases close() invokes when it holds the first n resources and its m-th
\* release raises (m = 0: none raises): page, context, browser, playwright in
\* this order, up to the one that raises (lines 417-424).
Released(n, m) ==
  { Resources[i] : i \in { j \in 1..n : m = 0 \/ n - j + 1 <= m } }

\* ---------------------------------------------------------------- main
\* lines 485-488: start_browser acquires the four resources in order and sets
\* the default timeout; any of the five calls can raise.  Then login is called.
StartBrowser_SkipsLogin ==
  /\ pc = "main_start"
  /\ \E n \in 0..Len(Resources), o \in OpOutcomes :
       /\ n < Len(Resources) => o # "ok"
       /\ Interrupted(o)
       /\ res' = n
       /\ phases' = << "start_browser" >>
       /\ IF o = "ok"
            THEN /\ pc' = "main_dispatch"
                 /\ h' = NoHistory
                 /\ UNCHANGED stack
            ELSE Uncaught(o, h)
  /\ UNCHANGED << inputs, ind, rowVis, released, closeCalls, jobs, results, k, attempts,
                  sel, ret >>

StartBrowser ==
  /\ pc = "main_start"
  /\ \E n \in 0..Len(Resources), o \in OpOutcomes :
       /\ n < Len(Resources) => o # "ok"
       /\ Interrupted(o)
       /\ res' = n
       /\ IF o = "ok"
            THEN /\ Call("login_goto", "main_login_ret")
                 /\ h' = NoHistory
                 /\ phases' = << "start_browser", "login" >>
            ELSE /\ Uncaught(o, h)
                 /\ phases' = << "start_browser" >>
  /\ UNCHANGED << inputs, ind, rowVis, released, closeCalls, jobs, results, k, attempts,
                  sel, ret >>

\* lines 488-491: login returned; on False the operator is prompted (input()).
MainLoginReturned ==
  /\ pc = "main_login_ret"
  /\ pc' = IF ret THEN "main_dispatch" ELSE "main_prompt"
  /\ h' = NoHistory
  /\ UNCHANGED << inputs, ind, rowVis, ints, data, stack, sel, ret >>

\* line 491: input() returns, or raises EOFError or KeyboardInterrupt.
MainPrompt ==
  /\ pc = "main_prompt"
  /\ \E o \in OpOutcomes :
       /\ Interrupted(o)
       /\ IF o = "ok"
            THEN /\ pc' = "main_dispatch"
                 /\ UNCHANGED << stack, h >>
            ELSE Uncaught(o, h)
  /\ UNCHANGED << inputs, ind, rowVis, data, sel, ret >>

\* lines 494-532: the command selected by the arguments.
MainDispatch ==
  /\ pc = "main_dispatch"
  /\ CASE cmd = "list" -> /\ CallListJobs(<< "main_list_ret" >>)
                          /\ UNCHANGED << results, k >>
       [] cmd = "all"  -> /\ CallListJobs(<< "main_all_ret", "ra_list_ret" >>)
                          /\ UNCHANGED << results, k >>
       [] cmd = "jobs" -> /\ pc' = "main_jobs"
                          /\ results' = <<>>
                          /\ k' = 1
                          /\ UNCHANGED << stack, sel, jobs, h >>
       [] OTHER        -> /\ pc' = "main_tail"
                          /\ UNCHANGED << stack, sel, jobs, h, results, k >>
  /\ phases' = IF cmd = "none" THEN phases ELSE Append(phases, cmd)
  /\ UNCHANGED << inputs, ind, rowVis, ints, res, released, closeCalls, attempts, ret >>

\* lines 516-518: the --job loop calls run_job for the next requested name.
MainJobsLoop ==
  /\ pc = "main_jobs"
  /\ IF k <= Len(args_jobs)
       THEN CallRunJob(args_jobs[k], "main_job_ret")
       ELSE /\ pc' = "main_tail"
            /\ UNCHANGED << stack, sel, rowVis, h >>
  /\ UNCHANGED << inputs, ind, ints, data, ret >>

\* lines 517-522: success = run_job(...); results[job_name] = success.
MainJobStore ==
  /\ pc = "main_job_ret"
  /\ results' = DictSet(results, args_jobs[k], ret)
  /\ k' = k + 1
  /\ pc' = "main_jobs"
  /\ rowVis' = "?"
  /\ h' = NoHistory
  /\ UNCHANGED << inputs, ind, ints, res, released, closeCalls, phases, jobs, attempts,
                  stack, sel, ret >>

\* lines 495-512: list_jobs or run_all_jobs returned; the outcome is printed.
MainReported ==
  /\ pc \in {"main_list_ret", "main_all_ret"}
  /\ pc' = "main_tail"
  /\ h' = NoHistory
  /\ UNCHANGED << inputs, ind, rowVis, ints, data, stack, sel, ret >>

\* lines 535-537: the closing wait_for_timeout(5000) when not headless.
MainTail ==
  /\ pc = "main_tail"
  /\ IF headless
       THEN /\ pc' = "main_finally"
            /\ UNCHANGED << stack, ints, h >>
       ELSE \E o \in OpOutcomes :
              /\ Interrupted(o)
              /\ IF o = "ok"
                   THEN /\ pc' = "main_finally"
                        /\ UNCHANGED << stack, h >>
                   ELSE Uncaught(o, h)
  /\ UNCHANGED << inputs, ind, rowVis, data, sel, ret >>

\* A handler of main has the exception: the frames it unwound are gone.
Handled ==
  /\ h' = NoHistory
  /\ sel' = 1
  /\ rowVis' = "?"

\* lines 539-541: except KeyboardInterrupt.
MainExceptInterrupt ==
  /\ pc = "main_except_ki"
  /\ pc' = "main_finally"
  /\ Handled
  /\ UNCHANGED << inputs, ind, ints, data, stack, ret >>

\* lines 543-548: except Exception takes the error screenshot when there is a
\* page; the finally clause runs whether or not the screenshot raises.
MainExceptError_NoFinally ==
  /\ pc = "main_except_exc"
  /\ IF res = Len(Resources)
       THEN \E o \in OpOutcomes :
              /\ Interrupted(o)
              /\ pc' = IF o = "ok" THEN "main_finally" ELSE "exit"
       ELSE /\ pc' = "main_finally"
            /\ ints' = ints
  /\ Handled
  /\ UNCHANGED << inputs, ind, data, stack, ret >>

MainExceptError ==
  /\ pc = "main_except_exc"
  /\ pc' = "main_finally"
  /\ IF res = Len(Resources)
       THEN \E o \in OpOutcomes : Interrupted(o)
       ELSE ints' = ints
  /\ Handled
  /\ UNCHANGED << inputs, ind, data, stack, ret >>

\* lines 550-551 and 413-427: finally: close().  close releases what it holds
\* until a release raises.
MainFinally ==
  /\ pc = "main_finally"
  /\ pc' = "exit"
  /\ closeCalls' = closeCalls + 1
  /\ phases' = Append(phases, "close")
  /\ \E m \in 0..res :
       /\ released' = Released(res, m)
       /\ IF m = 0 THEN ints' = ints ELSE \E o \in Raises : Interrupted(o)
  /\ UNCHANGED << inputs, ind, rowVis, res, jobs, results, k, attempts, stack, sel, ret, h >>

\* ------------------------------------------------------ specifications
\* Sequences over S of length lo..hi.
SeqsOf(S, lo, hi) == UNION { [1..n -> S] : n \in lo..hi }

Undecided == [pos |-> [i \in 1..Len(logged_in_indicators) |-> "?"],
              neg |-> [i \in 1..Len(login_indicators) |-> "?"]]

\* A run of main (lines 475-483): the arguments and the environment are chosen,
\* the automation object is created, nothing is acquired yet.
Init ==
  /\ pc = "main_start"
  /\ stack = <<>>
  /\ sel = 1
  /\ ret = FALSE
  /\ cmd \in {"list", "all", "jobs", "none"}
  /\ args_jobs \in IF cmd = "jobs" THEN SeqsOf(JobNames, 1, MaxArgs) ELSE {<<>>}
  /\ creds \in BOOLEAN
  /\ headless \in BOOLEAN
  /\ pageRows = MaxListed
  /\ ind = Undecided
  /\ rowVis = "?"
  /\ ints = 0
  /\ res = 0 /\ released = {} /\ closeCalls = 0 /\ phases = <<>>
  /\ jobs = <<>> /\ results = <<>> /\ k = 0 /\ attempts = <<>>
  /\ h = NoHistory

Next ==
  \/ StartBrowser \/ MainLoginReturned \/ MainPrompt \/ MainDispatch
  \/ MainJobsLoop \/ MainJobStore \/ MainReported \/ MainTail
  \/ MainExceptInterrupt \/ MainExceptError \/ MainFinally
  \/ LoginGoto \/ LoginCheck1
  \/ LoginUserProbe \/ LoginUserFill \/ LoginPassProbe \/ LoginPassFill
  \/ LoginButtonProbe \/ LoginButtonClick \/ LoginEnter \/ LoginWait \/ LoginCheck2
  \/ IsLoggedInPositive \/ IsLoggedInNegative
  \/ NavProbe \/ NavClick \/ NavWait \/ NavDirect
  \/ ListWait \/ ListRows \/ ListTail
  \/ RunJobWait \/ RunJobRow \/ RunJobButton \/ RunJobClick \/ RunJobSettle
  \/ FallbackProbe \/ FallbackClick \/ FallbackSettle
  \/ RunAllListed \/ RunAllLoop \/ RunAllStore

Spec == Init /\ [][Next]_vars

\* _is_logged_in called on a page whose indicators are fixed.
InitClassify ==
  /\ pc = "ili_pos"
  /\ stack = << "ret_classify" >>
  /\ sel = 1
  /\ ret = FALSE
  /\ cmd = "none" /\ args_jobs = <<>> /\ creds = FALSE /\ headless = TRUE
  /\ pageRows = 0
  /\ ind \in [pos : [1..Len(logged_in_indicators) -> Shown],
              neg : [1..Len(login_indicators) -> Shown]]
  /\ rowVis = "?"
  /\ ints = 0
  /\ res = 0 /\ released = {} /\ closeCalls = 0 /\ phases = <<>>
  /\ jobs = <<>> /\ results = <<>> /\ k = 0 /\ attempts = <<>>
  /\ h = NoHistory

NextClassify == IsLoggedInPositive \/ IsLoggedInNegative

SpecClassify == InitClassify /\ [][NextClassify]_vars

\* list_jobs called on a listing whose selectors match up to ROW_LIMIT + MaxExtra rows.
InitListJobs ==
  /\ pc = "nav_probe"
  /\ stack = << "ret_list_jobs", "lj_wait" >>
  /\ sel = 1
  /\ ret = FALSE
  /\ cmd = "list" /\ args_jobs = <<>> /\ creds = FALSE /\ headless = TRUE
  /\ pageRows = ROW_LIMIT + MaxExtra
  /\ ind = Undecided
  /\ rowVis = "?"
  /\ ints = 0
  /\ res = Len(Resources) /\ released = {} /\ closeCalls = 0 /\ phases = <<>>
  /\ jobs = <<>> /\ results = <<>> /\ k = 0 /\ attempts = <<>>
  /\ h = NoHistory

NextListJobs == NavProbe \/ NavClick \/ NavWait \/ NavDirect \/ ListWait \/ ListRows \/ ListTail

SpecListJobs == InitListJobs /\ [][NextListJobs]_vars

\* ------------------------------------------------------------ properties
PublicMethods == {"login", "navigate_to_jobs", "list_jobs", "run_job", "run_all_jobs"}

\* C1: in every selector loop that acts on one element, the selector acted on is
\* the first whose visibility probe succeeded, and after a successful probe no
\* later selector of the list is probed or acted on.
C1_FirstVisibleOnly ==
  /\ ~h.late
  /\ h.acted # 0 => h.acted = h.hit

\* C2: _is_logged_in returns True whenever a positive indicator is visible,
\* whatever the negative indicators show.
C2_PositivePrecedence ==
  (pc = "ret_classify" /\ \E i \in DOMAIN ind.pos : ind.pos[i] = "vis") => ret = TRUE

\* C2 witness: _is_logged_in has returned on a page that shows a positive and a
\* negative indicator.
C2_BothVisible ==
  /\ pc = "ret_classify"
  /\ \E i \in DOMAIN ind.pos : ind.pos[i] = "vis"
  /\ \E i \in DOMAIN ind.neg : ind.neg[i] = "vis"

\* The page shows no indicator of either list.
NoneVisible ==
  /\ \A i \in DOMAIN ind.pos : ind.pos[i] # "vis"
  /\ \A i \in DOMAIN ind.neg : ind.neg[i] # "vis"

\* The session state _is_logged_in reports.
SessionState == IF ret THEN "Authenticated" ELSE "Unauthenticated"

\* C3 as claimed: with no indicator visible the classification is Unknown.
C3_Unknown == (pc = "ret_classify" /\ NoneVisible) => SessionState = "Unknown"

\* C3 amended: with no positive and no negative indicator visible,
\* _is_logged_in returns True (the session is assumed to be logged in).
C3_AssumedLoggedIn == (pc = "ret_classify" /\ NoneVisible) => ret = TRUE

\* C3 witness: _is_logged_in has returned on a page showing no indicator.
C3_NoneVisibleReturned == pc = "ret_classify" /\ NoneVisible

\* C4: when main ends close() has been invoked exactly once, and nothing runs
\* after close().
C4_CloseOnceAndLast ==
  /\ pc = "exit" => closeCalls = 1
  /\ closeCalls # 0 => (pc = "exit" /\ closeCalls = 1)

\* C4 witness: main has ended after a step raised (start_browser did not
\* acquire every resource, or an exception reached a handler while a job loop ran).
C4_EndedAfterFailure ==
  /\ pc = "exit"
  /\ closeCalls = 1
  /\ res < Len(Resources)

\* C5: run_job on a job whose row is not visible returns False and does not
\* raise (stated for runs without an interrupt).
C5_MissingRowFalse ==
  (h.rjEnd # "none" /\ rowVis = "hid" /\ ints = 0) => h.rjEnd = "False"

\* C6: list_jobs never holds or returns more than ROW_LIMIT records.
C6_AtMostRowLimit == Len(jobs) <= ROW_LIMIT

\* C6 witness: list_jobs has returned ROW_LIMIT records from a selector that
\* matched more rows than that.
C6_MoreRowsThanLimit ==
  /\ pc = "ret_list_jobs"
  /\ h.matched > ROW_LIMIT
  /\ Len(jobs) = ROW_LIMIT

\* The names a multi-job run was asked for, in order.
Requested ==
  IF cmd = "jobs" THEN args_jobs ELSE [i \in 1..Len(jobs) |-> jobs[i].name]

\* The mapping that holds, for each attempted name, whether its last trigger clicked.
RECURSIVE Outcomes(_, _)
Outcomes(log, n) ==
  IF n = 0 THEN <<>> ELSE DictSet(Outcomes(log, n - 1), log[n][1], log[n][2])

\* The multi-job run is over: its loop has ended, or an exception has left it.
BatchOver ==
  /\ cmd \in {"jobs", "all"}
  /\ k >= 1
  /\ \/ cmd = "jobs" /\ pc = "main_tail"
     \/ cmd = "all" /\ pc = "main_all_ret"
     \/ pc = "main_except_exc"

\* C7: a multi-job run attempts every requested name in order, and its mapping
\* is true exactly for the names whose last trigger clicked the action control
\* (stated for runs without an interrupt).
C7_BatchCompletes ==
  (BatchOver /\ ints = 0) =>
     /\ [i \in 1..Len(attempts) |-> attempts[i][1]] = Requested
     /\ results = Outcomes(attempts, Len(attempts))

\* C8: when the classification after the submit is unauthenticated, login returns
\* False without raising and closes nothing; main then prompts the operator and,
\* when the prompt returns, continues with the requested command.
C8_FailedLoginStaysOpen ==
  /\ [](h.class2 = "False" =>
          /\ h.loginRet = "False"
          /\ pc = "main_login_ret" /\ ret = FALSE
          /\ closeCalls = 0 /\ released = {})
  /\ [][pc = "main_login_ret" /\ ~ret => pc' = "main_prompt"]_vars
  /\ [][pc = "main_prompt" /\ pc' \notin {"main_except_ki", "main_except_exc"}
          => pc' = "main_dispatch" /\ closeCalls' = 0]_vars

\* C8 witness: login has returned after a submit (both fields filled, a click or
\* Enter) that the second classification found unauthenticated.
C8_SubmittedButUnauthenticated ==
  /\ pc = "main_login_ret"
  /\ h.class2 = "False"
  /\ h.acts >= 3

\* C9: when the first classification of login is authenticated, login returns
\* True and performs no fill, no click and no key press.
C9_LoggedInNoAction ==
  h.class1 = "True" => (h.loginRet = "True" /\ ret = TRUE /\ h.acts = 0)

\* C9 witness: login has returned to main on a session found authenticated at once.
C9_AlreadyLoggedIn == pc = "main_login_ret" /\ h.class1 = "True" /\ creds

\* C10: no Exception raised by a page operation propagates out of login,
\* navigate_to_jobs, list_jobs, run_job or run_all_jobs.
C10_NothingEscapes ==
  h.escKind = "Exception" => h.escaped \cap PublicMethods = {}

\* The statements that perform a visibility probe, a fill, a click or a
\* navigation on the page.
PageWork ==
  { "login_goto", "ili_pos", "ili_neg",
    "login_user", "login_user_fill", "login_pass", "login_pass_fill",
    "login_button", "login_click",
    "nav_probe", "nav_click", "rj_row", "rj_button", "rj_click",
    "rj_fb", "rj_fb_click" }

\* C11: once a KeyboardInterrupt has been delivered the program performs no
\* further probe, fill, click or navigation before close(): it is never again
\* at such a statement.
C11_InterruptEndsPageWork ==
  (ints > 0 /\ closeCalls = 0) => pc \notin PageWork

\* C12: run_job returns False only after the pass over play_button_selectors
\* was executed: whenever the row-scoped pass fails, the page-global pass runs
\* before the False.
C12_FallbackBeforeFalse == h.rjEnd = "False" => h.fallback

\* The records the rows of the row selector tried last yield.
LastSelectorRecords == ExtractJobs(h.pat, Limit(h.matched))

\* list_jobs is past its selector loop, or has returned.
ListingDone == pc \in {"lj_tail", "ret_list_jobs"}

\* C13 as claimed: once a row selector has matched at least one row no later
\* row selector is tried; the records are those of that single selector, in
\* document order, rows without a name skipped.
C13_StopAtFirstMatch ==
  /\ pc = "lj_rows" => h.matched = 0
  /\ ListingDone => jobs = LastSelectorRecords

\* C13 amended: once a row selector has yielded at least one record (a row
\* with a non-empty name) no later row selector is tried; the records held and
\* returned are those of the last selector tried alone, in document order, rows
\* whose name is empty or whose extraction raises skipped.
C13_StopAtFirstRecord ==
  /\ pc = "lj_rows" => jobs = <<>>
  /\ ListingDone =>
       /\ jobs = LastSelectorRecords
       /\ \A i \in 1..Len(jobs) : jobs[i].name \in JobNames
       /\ \A i, j \in 1..Len(jobs) : i < j => jobs[i].index < jobs[j].index

\* C13 witness: list_jobs has returned records of a later selector after an
\* earlier one matched rows without a name; the rows of the last selector
\* include one whose name extraction raises.
C13_SkippedRowsReturned ==
  /\ pc = "ret_list_jobs"
  /\ h.barren /\ h.tried >= 2
  /\ jobs # <<>>
  /\ \E i, j \in 1..PatLen : h.pat[i] = "!" /\ h.pat[j] \in JobNames

\* The selector list a probe statement of login iterates over.
ListAt(at) ==
  CASE at = "login_user"   -> username_selectors
    [] at = "login_pass"   -> password_selectors
    [] at = "login_button" -> login_button_selectors

\* C14: a probe of login that does not find its selector visible, whether it
\* timed out or raised, only moves on to the next selector of the list; after
\* the last selector of the username or the password list login returns False
\* to its caller without raising (after the last button selector it goes on to
\* the Enter key).
C14_NotFoundIsFalse ==
  [][ (pc \in {"login_user", "login_pass", "login_button"}
        /\ pc' \notin {"login_user_fill", "login_pass_fill", "login_click"})
      => IF sel < Len(ListAt(pc))
           THEN pc' = pc /\ sel' = sel + 1 /\ stack' = stack
         ELSE IF pc = "login_button"
           THEN pc' = "login_enter" /\ stack' = stack
         ELSE /\ pc' = "main_login_ret" /\ stack' = <<>>
              /\ ret' = FALSE /\ h'.loginRet = "False" /\ h'.escaped = {} ]_vars

\* C14 witness: login has returned False to main with credentials configured
\* and no fill attempted: no selector of the username list was found visible.
C14_NoUsernameField ==
  /\ pc = "main_login_ret" /\ ret = FALSE
  /\ creds /\ h.class1 = "False"
  /\ h.loginRet = "False" /\ h.acts = 0

\* The statements that perform an operation on the page (main's closing wait
\* only when the browser is not headless).
PageOps ==
  PageWork \cup
  { "login_enter", "login_wait", "nav_wait", "nav_url", "lj_wait", "lj_rows",
    "lj_tail", "rj_wait", "rj_settle", "rj_fb_settle", "ra_job_ret" } \cup
  (IF headless THEN {} ELSE {"main_tail"})

\* The statements of login and _is_logged_in.
LoginWork ==
  { "login_goto", "login_check1", "login_check2", "ili_pos", "ili_neg",
    "login_user", "login_user_fill", "login_pass", "login_pass_fill",
    "login_button", "login_click", "login_enter", "login_wait" }

\* The statements of navigate_to_jobs, list_jobs, run_job and run_all_jobs.
JobWork ==
  { "nav_probe", "nav_click", "nav_wait", "nav_url", "lj_wait", "lj_rows", "lj_tail",
    "rj_wait", "rj_row", "rj_button", "rj_click", "rj_settle",
    "rj_fb", "rj_fb_click", "rj_fb_settle", "ra_list_ret", "ra_loop", "ra_job_ret" }

\* The orders of steps a run may have begun: start_browser, login, one
\* command, each run possibly ended by close.
Orders ==
  LET full(c) == << "start_browser", "login", c >>
      begun   == { SubSeq(full(c), 1, n) : c \in {"list", "all", "jobs"}, n \in 1..3 }
  IN  {<<>>} \cup begun \cup { Append(p, "close") : p \in begun }

\* C15: main begins its steps in the order start_browser, login, at most one
\* of listing / --job triggering / run-all, close; listing and triggering run
\* only after login was called, every page operation happens on the page
\* start_browser produced, and none after close().
C15_MainOrder ==
  /\ phases \in Orders
  /\ pc \in LoginWork => phases = << "start_browser", "login" >>
  /\ pc \in JobWork => phases = << "start_browser", "login", cmd >>
  /\ pc \in PageOps => (res = Len(Resources) /\ closeCalls = 0)
  /\ closeCalls > 0 => (pc = "exit" /\ phases[Len(phases)] = "close")

\* C15 witness: a run-all that triggered a job has ended with close.
C15_RunAllThenClosed ==
  /\ pc = "exit"
  /\ phases = << "start_browser", "login", "all", "close" >>
  /\ attempts # <<>>

\* The names run_job was called with so far, and the names discovery returned.
Triggered == [i \in 1..Len(attempts) |-> attempts[i][1]]
Discovered == [i \in 1..Len(jobs) |-> jobs[i].name]

\* run_all_jobs has returned, or an exception has left it.
RunAllEnded == pc = "main_all_ret" \/ "run_all_jobs" \in h.escaped

\* C16: run_all_jobs triggers the discovered names in discovery order and no
\* other name, no name twice, and when it ends every discovered name has been
\* triggered (stated for runs without an interrupt).
C16_EachDiscoveredOnce ==
  cmd = "all" =>
    /\ Len(Triggered) <= Len(Discovered)
    /\ \A i \in 1..Len(Triggered) : Triggered[i] = Discovered[i]
    /\ \A i, j \in 1..Len(Triggered) : i # j => Triggered[i] # Triggered[j]
    /\ (RunAllEnded /\ ints = 0) => Triggered = Discovered

\* The elements of a sequence.
Range(s) == { s[i] : i \in 1..Len(s) }

\* login is over: it returned or an exception left it.
LoginOver == h.loginRet # "none"

\* Both credential fields were filled (page.fill returned for each).
BothFilled == Len(h.sent) >= 2 /\ h.sent[1] = "username" /\ h.sent[2] = "password"

\* C17: login presses Enter only when both fields were filled and no button
\* click completed, and in that case it does press it: at the end of a login
\* that filled both fields exactly one of click and Enter was made.
C17_EnterIffNoClick ==
  /\ "enter" \in Range(h.sent) => (BothFilled /\ "click" \notin Range(h.sent))
  /\ pc \in {"login_wait", "login_check2"} => BothFilled
  /\ (BothFilled /\ (LoginOver \/ pc \in {"login_wait", "login_check2"}))
       => ("enter" \in Range(h.sent) <=> "click" \notin Range(h.sent))

\* C17 witness: login has returned after both fields were filled, no button
\* click completed and Enter was pressed.
C17_EnterWithoutClick ==
  /\ pc = "main_login_ret"
  /\ h.sent = << "username", "password", "enter" >>

\* C18: within one run_job call the action control is clicked at most once, the
\* row-scoped pass and the pass over play_button_selectors taken together.
C18_AtMostOneClick == h.rjClicks <= 1

\* C19: run_job returns True exactly when a click on an action control was
\* performed in that call: a call that returned False performed no click.
C19_TrueIffClicked ==
  /\ h.rjEnd = "True" => h.rjClicks > 0
  /\ h.rjEnd = "False" => h.rjClicks = 0

\* s is an initial part of t.
IsPrefix(s, t) == Len(s) <= Len(t) /\ \A i \in 1..Len(s) : s[i] = t[i]

\* C20: login enters the username, then the password, then one submit (a
\* button click or Enter), each at most once and none out of this order; with
\* no credentials configured it fills nothing and makes no fill, click or press.
C20_CredentialsInOrder ==
  /\ \/ IsPrefix(h.sent, << "username", "password", "click" >>)
     \/ IsPrefix(h.sent, << "username", "password", "enter" >>)
  /\ ~creds => (h.sent = <<>> /\ h.acts = 0)
  /\ pc \in {"login_user", "login_user_fill"} => h.sent = <<>>
  /\ pc \in {"login_pass", "login_pass_fill"} => h.sent = << "username" >>
  /\ pc \in {"login_button", "login_click", "login_enter"}
       => h.sent = << "username", "password" >>

\* C20 witness: login has returned after a fill that raised on one selector and
\* the fills and the click that completed on others.
C20_SubmittedAfterRetry ==
  /\ pc = "main_login_ret"
  /\ h.sent = << "username", "password", "click" >>
  /\ h.acts > 3

\* The resources start_browser acquired.
Acquired == { Resources[i] : i \in 1..res }

\* C21: when close() has returned, the release of every resource start_browser
\* acquired has been invoked, also when an earlier release raised (stated for
\* runs without an interrupt).
C21_AllReleased == (pc = "exit" /\ ints = 0) => released = Acquired
====
